---- MODULE Spec2Model ----
(***************************************************************************)
(* A model of spidermon's ItemValidationPipeline                           *)
(* (spidermon/contrib/scrapy/pipelines.py): the construction of the        *)
(* validator registry from the crawler settings (from_crawler) and the     *)
(* per-item dispatch loop (process_item).                                  *)
(*                                                                         *)
(* Python values are records tagged with their type in field t.  Strings   *)
(* that the code inspects (object paths, file names) are sequences of      *)
(* dot-separated segments, so that endswith('.json') can be computed.      *)
(***************************************************************************)
EXTENDS Integers, Sequences, FiniteSets, TLC

\* ------------------------------------------------------------------ bounds
\* Number of process_item calls made on one pipeline.
MaxCalls == 2
\* Longest list of leaves in one declaration of a setting.
MaxDecl == 2

\* ------------------------------------------------------- module constants
DEFAULT_ERRORS_FIELD == "_validation"
DEFAULT_ADD_ERRORS_TO_ITEM == FALSE
DEFAULT_DROP_ITEMS_WITH_ERRORS == FALSE
\* UniversalItem.__name__
UniversalItem == "UniversalItem"

\* ----------------------------------------------------------- Python values
PyNone == [t |-> "NoneType"]
PyBool(b) == [t |-> "bool", v |-> b]
PyInt(n) == [t |-> "int", v |-> n]
PyStr(segs) == [t |-> "str", v |-> segs]
PyList(xs) == [t |-> "list", v |-> xs]
PyTuple(xs) == [t |-> "tuple", v |-> xs]
\* a dict whose keys are item classes (named by __name__) or field names
PyDict(f) == [t |-> "dict", v |-> f]
\* a dict that is a JSON schema; the schema decides what its validator does
PySchema(id) == [t |-> "dict", schema |-> id]
\* a class; model tells whether it subclasses schematics.models.Model
PyClass(name, isModel) == [t |-> "type", name |-> name, model |-> isModel]

\* Python truth value of x, as `not res` and `x or default` use it.
Truthy(x) ==
    CASE x.t = "NoneType" -> FALSE
      [] x.t = "bool" -> x.v
      [] x.t = "int" -> x.v # 0
      [] x.t \in {"str", "list", "tuple"} -> Len(x.v) > 0
      [] x.t = "dict" -> IF "schema" \in DOMAIN x THEN TRUE ELSE DOMAIN x.v # {}
      [] OTHER -> TRUE

\* x or d
PyOr(x, d) == IF Truthy(x) THEN x ELSE d

\* schema.endswith('.json') on a string of dot-separated segments
EndsWithJson(s) == Len(s.v) >= 2 /\ s.v[Len(s.v)] = "json"

\* Results of an operation that may raise.
Ok(val) == [raised |-> "none", val |-> val]
Raise(exc) == [raised |-> exc]

\* ------------------------------------------------- the objects of the run
\* What scrapy.utils.misc.load_object does with an object path: the object
\* found there, or the exception of a path that leads nowhere.
load_object(path) ==
    CASE path.v = <<"schemas", "S_OK">> -> Ok(PySchema("S_OK"))
      [] path.v = <<"schemas", "S_TITLE_JSON">> -> Ok(PyStr(<<"{json S_TITLE}">>))
      [] path.v = <<"schemas", "BROKEN_JSON">> -> Ok(PyStr(<<"{broken">>))
      [] path.v = <<"schemas", "NUMBER">> -> Ok(PyInt(7))
      [] path.v = <<"models", "M_AB">> -> Ok(PyClass("M_AB", TRUE))
      [] path.v = <<"models", "M_OK">> -> Ok(PyClass("M_OK", TRUE))
      [] path.v = <<"models", "M_OKERR">> -> Ok(PyClass("M_OKERR", TRUE))
      [] path.v = <<"models", "M_RAISE">> -> Ok(PyClass("M_RAISE", TRUE))
      [] path.v = <<"models", "Plain">> -> Ok(PyClass("Plain", FALSE))
      [] path.v = <<"models", "INSTANCE">> -> Ok(PyInt(7))
      [] OTHER -> Raise("ImportError")

\* What json.load / json.loads do with a file or a string: the decoded value,
\* or the exception of a missing file or of text that is no JSON.
json_load(src) ==
    CASE src.v = <<"s_ab", "json">> -> Ok(PySchema("S_AB"))
      [] src.v = <<"list", "json">> -> Ok(PyList(<<>>))
      [] src.v = <<"missing", "json">> -> Raise("IOError")
      [] src.v = <<"{json S_TITLE}">> -> Ok(PySchema("S_TITLE"))
      [] OTHER -> Raise("ValueError")

JSONSchemaValidator(schema) == [name |-> "JSONSchemaValidator", ref |-> schema.schema]
SchematicsValidator(model_class) == [name |-> "SchematicsValidator", ref |-> model_class.name]

\* isinstance(schema, six.string_types)
IsString(x) == x.t = "str"

\* Lines 75-82 of _load_jsonschema_validator: what the declared schema
\* resolves to, or the exception raised on the way.
ResolveSchema(schema) ==
    IF IsString(schema)
    THEN IF EndsWithJson(schema)
         THEN json_load(schema)
         ELSE LET obj == load_object(schema)
              IN  IF obj.raised # "none"
                  THEN obj
                  ELSE IF IsString(obj.val) THEN json_load(obj.val) ELSE obj
    ELSE Ok(schema)

\* ItemValidationPipeline._load_jsonschema_validator
_load_jsonschema_validator(schema) ==
    LET s == ResolveSchema(schema)
    IN  IF s.raised # "none"
        THEN s
        ELSE IF ~(s.val.t = "dict")
             THEN Raise("NotConfigured")
             ELSE Ok(JSONSchemaValidator(s.val))

\* ItemValidationPipeline._load_schematics_validator; issubclass raises
\* TypeError when its first argument is no class.
_load_schematics_validator(model_path) ==
    LET model_class == load_object(model_path)
    IN  IF model_class.raised # "none"
        THEN model_class
        ELSE IF model_class.val.t # "type"
             THEN Raise("TypeError")
             ELSE IF ~model_class.val.model
                  THEN Raise("NotConfigured")
                  ELSE Ok(SchematicsValidator(model_class.val))

\* The loader from_crawler pairs with each setting (lines 54-57).
Loader(which, leaf) ==
    IF which = "SPIDERMON_VALIDATION_SCHEMAS"
    THEN _load_jsonschema_validator(leaf)
    ELSE _load_schematics_validator(leaf)

\* ---------------------------------------------------------------- settings
SettingNames == {"SPIDERMON_VALIDATION_SCHEMAS", "SPIDERMON_VALIDATION_MODELS"}

\* Sequences over S of length 1..n.
SeqsUpTo(S, n) == UNION {[1..k -> S] : k \in 1..n}

\* Leaves of SPIDERMON_VALIDATION_SCHEMAS: an inline schema, JSON files, object
\* paths to a dict, to a JSON string, to text that is no JSON and to a number,
\* and a value that is neither a string nor a dict.
SchemaLeaves ==
    {PySchema("S_A"), PyStr(<<"s_ab", "json">>), PyStr(<<"schemas", "S_OK">>),
     PyStr(<<"schemas", "S_TITLE_JSON">>), PyStr(<<"schemas", "NUMBER">>),
     PyStr(<<"schemas", "BROKEN_JSON">>), PyStr(<<"missing", "json">>), PyInt(5)}

\* Leaves of SPIDERMON_VALIDATION_MODELS: object paths to a model class, to a
\* class that is no model, and to an object that is no class.
ModelLeaves ==
    {PyStr(<<"models", "M_AB">>), PyStr(<<"models", "M_OK">>), PyStr(<<"models", "Plain">>),
     PyStr(<<"models", "INSTANCE">>)}

\* Item classes, by __name__.  A spider may name its own class UniversalItem.
ItemClasses == {"Book", "Page", UniversalItem}

\* Values of a setting whose type is none of list, tuple and dict: strings,
\* numbers, booleans, and a mapping of a dict subclass.
BadContainers ==
    {PyStr(<<"schemas", "S_OK">>), PyStr(<<>>), PyInt(3), PyInt(0), PyBool(TRUE), PyBool(FALSE),
     [t |-> "OrderedDict", v |-> ("Book" :> PyInt(1))]}

\* ------------------------------------------------------------------- state
VARIABLES
    settings,                \* crawler.settings
    pc,                      \* where the pipeline is
    exc,                     \* the exception the last operation raised, or "none"
    validators,              \* self.validators
    drop_items_with_errors,  \* self.drop_items_with_errors
    add_errors_to_items,     \* self.add_errors_to_items
    errors_field,            \* self.errors_field
    stats,                   \* the counters of the stats sink
    class_fields,            \* item.__class__.fields, per item class
    item,                    \* the item of the current process_item call
    data,                    \* process_item's local: the converted item
    todo,                    \* process_item's local: the validators still to run
    events,                  \* what the current call did, in order
    ncalls                   \* process_item calls made so far

vars == <<settings, pc, exc, validators, drop_items_with_errors, add_errors_to_items,
          errors_field, stats, class_fields, item, data, todo, events, ncalls>>

\* ------------------------------------------------------------ from_crawler
\* validators.get(key, [])
RegistryGet(reg, key) == IF key \in DOMAIN reg THEN reg[key] ELSE <<>>

\* paths if type(paths) in (list, tuple) else [paths]
NormalizePaths(paths) == IF paths.t \in {"list", "tuple"} THEN paths.v ELSE <<paths>>

\* [loader(v) for v in paths]: the loaded objects, or the first exception
LoadPaths(which, paths) ==
    LET res == [i \in 1..Len(paths) |-> Loader(which, paths[i])]
        bad == {i \in 1..Len(paths) : res[i].raised # "none"}
    IN  IF bad = {}
        THEN Ok([i \in 1..Len(paths) |-> res[i].val])
        ELSE Raise(res[CHOOSE i \in bad : \A j \in bad : i <= j].raised)

\* set_validators with validators[key] = objects: a later declaration for a
\* key replaces what was registered under it.
set_validators_Replace(which, schema, reg) ==
    LET decl == IF schema.t \in {"list", "tuple"}
                THEN (UniversalItem :> schema)
                ELSE schema.v
        loaded == [key \in DOMAIN decl |-> LoadPaths(which, NormalizePaths(decl[key]))]
        bad == {key \in DOMAIN decl : loaded[key].raised # "none"}
    IN  IF bad = {}
        THEN {Ok([key \in DOMAIN reg \cup DOMAIN decl |->
                    IF key \in DOMAIN decl THEN loaded[key].val ELSE reg[key]])}
        ELSE {Raise(loaded[key].raised) : key \in bad}

\* from_crawler's set_validators: the outcomes it can have.  The keys of a
\* dict are visited in an order Python does not fix, so when several keys fail
\* to load, the exception of any of them may be the one that is raised.
set_validators(which, schema, reg) ==
    LET decl == IF schema.t \in {"list", "tuple"}
                THEN (UniversalItem :> schema)
                ELSE schema.v
        loaded == [key \in DOMAIN decl |-> LoadPaths(which, NormalizePaths(decl[key]))]
        bad == {key \in DOMAIN decl : loaded[key].raised # "none"}
    IN  IF bad = {}
        THEN {Ok([key \in DOMAIN reg \cup DOMAIN decl |->
                    IF key \in DOMAIN decl
                    THEN RegistryGet(reg, key) \o loaded[key].val
                    ELSE reg[key]])}
        ELSE {Raise(loaded[key].raised) : key \in bad}

\* The loop without the check of lines 61-63: a value of a wrong type is
\* passed over like an unset one.
LoadSetting_NoTypeCheck(which, cfg, reg) ==
    LET res == cfg[which]
    IN  IF ~Truthy(res) \/ res.t \notin {"list", "tuple", "dict"}
        THEN {Ok(reg)}
        ELSE set_validators(which, res, reg)

\* One turn of from_crawler's loop over the two settings (lines 58-64).
LoadSetting(which, cfg, reg) ==
    LET res == cfg[which]
    IN  IF ~Truthy(res)
        THEN {Ok(reg)}
        ELSE IF res.t \notin {"list", "tuple", "dict"}
             THEN {Raise("NotConfigured")}
             ELSE set_validators(which, res, reg)

\* The registries from_crawler can build, or the exceptions it can raise.
BuildValidators(cfg) ==
    LET first == LoadSetting("SPIDERMON_VALIDATION_SCHEMAS", cfg, <<>>)
    IN  UNION {IF r.raised # "none"
               THEN {r}
               ELSE LoadSetting("SPIDERMON_VALIDATION_MODELS", cfg, r.val) : r \in first}

\* stats.add_validator(_type, val.name) for every registered validator
RegisteredNames(reg) ==
    UNION {{<<key, reg[key][i].name>> : i \in DOMAIN reg[key]} : key \in DOMAIN reg}

\* crawler.settings.get(name)
SettingsGet(name) == settings[name]

NoItem == [cls |-> "", values |-> <<>>]

\* The fields every item class declares before the pipeline touches it.
DeclaredFields == {"title", "tags"}

\* The state in which no pipeline exists yet.
Unbuilt ==
    /\ pc = "start"
    /\ exc = "none"
    /\ validators = <<>>
    /\ drop_items_with_errors = PyNone
    /\ add_errors_to_items = PyBool(FALSE)
    /\ errors_field = PyNone
    /\ stats = [items |-> 0, fields |-> 0, field_errors |-> 0, items_with_errors |-> 0,
                dropped |-> 0, validators |-> {}]
    /\ class_fields = [c \in ItemClasses |-> DeclaredFields]
    /\ item = NoItem
    /\ data = <<>>
    /\ todo = <<>>
    /\ events = <<>>
    /\ ncalls = 0

\* ItemValidationPipeline.from_crawler, with the __init__ it ends in.
from_crawler ==
    /\ pc = "start"
    /\ \E r \in BuildValidators(settings) :
         IF r.raised # "none"
         THEN /\ pc' = "failed"
              /\ exc' = r.raised
              /\ UNCHANGED <<validators, drop_items_with_errors, add_errors_to_items,
                             errors_field, stats>>
         ELSE /\ pc' = "ready"
              /\ exc' = "none"
              /\ validators' = r.val
              /\ drop_items_with_errors' =
                   SettingsGet("SPIDERMON_VALIDATION_DROP_ITEMS_WITH_ERRORS")
              /\ add_errors_to_items' =
                   PyOr(SettingsGet("SPIDERMON_VALIDATION_ADD_ERRORS_TO_ITEMS"),
                        PyBool(DEFAULT_ADD_ERRORS_TO_ITEM))
              /\ errors_field' =
                   PyOr(SettingsGet("SPIDERMON_VALIDATION_ERRORS_FIELD"),
                        PyStr(<<DEFAULT_ERRORS_FIELD>>))
              /\ stats' = [stats EXCEPT !.validators = RegisteredNames(r.val)]
    /\ UNCHANGED <<settings, class_fields, item, data, todo, events, ncalls>>

\* ------------------------------------------------------------ collaborators
NoErrors == <<>>

Returns(ok, errors) == [raised |-> "none", ok |-> ok, errors |-> errors]

\* What validator.validate(data) does: the (ok, errors) it returns, or the
\* exception it raises.  What a validator answers is decided by the schema or
\* model it was loaded from.
Validate(validator, d) ==
    CASE validator.ref \in {"S_OK", "M_OK"} -> Returns(TRUE, NoErrors)
      [] validator.ref = "S_A" -> Returns(FALSE, "a" :> <<"bad1">>)
      [] validator.ref \in {"S_AB", "M_AB"} ->
            Returns(FALSE, ("a" :> <<"bad2">>) @@ ("b" :> <<"bad3">>))
      [] validator.ref = "S_TITLE" ->
            IF "title" \in DOMAIN d /\ Truthy(d["title"])
            THEN Returns(TRUE, NoErrors)
            ELSE Returns(FALSE, "title" :> <<"required", "empty">>)
      [] validator.ref = "M_OKERR" -> Returns(TRUE, "a" :> <<"ignored">>)
      [] validator.ref = "M_RAISE" -> [raised |-> "ValueError"]

\* What the JSON export and json.loads make of one value of an item: a tuple
\* comes back as a list.
JsonRoundTrip(value) == IF value.t = "tuple" THEN PyList(value.v) ELSE value

\* ------------------------------------------------------------ process_item
\* self.errors_field as a key
ErrorsKey == errors_field.v[1]

\* _convert_item_to_dict with an exporter that exports every field the class
\* of the item declares, the unset ones as null.
_convert_item_to_dict_DeclaredFields(it) ==
    [k \in DOMAIN it.values \cup class_fields[it.cls] |->
        IF k \in DOMAIN it.values THEN JsonRoundTrip(it.values[k]) ELSE PyNone]

\* _convert_item_to_dict with an exporter that leaves out the fields whose
\* value is empty.
_convert_item_to_dict_NonEmpty(it) ==
    [k \in {f \in DOMAIN it.values : Truthy(it.values[f])} |-> JsonRoundTrip(it.values[k])]

\* ItemValidationPipeline._convert_item_to_dict
_convert_item_to_dict(it) == [k \in DOMAIN it.values |-> JsonRoundTrip(it.values[k])]

\* find_validators that also consults the class a Page derives from.
find_validators_BaseClass(it) ==
    RegistryGet(validators, it.cls)
    \o (IF it.cls = "Page" THEN RegistryGet(validators, "Book") ELSE <<>>)
    \o RegistryGet(validators, UniversalItem)

\* find_validators with the two lookups swapped.
find_validators_UniversalFirst(it) ==
    RegistryGet(validators, UniversalItem) \o RegistryGet(validators, it.cls)

\* ItemValidationPipeline.find_validators
find_validators(it) == RegistryGet(validators, it.cls) \o RegistryGet(validators, UniversalItem)

\* The orders in which errors.items() can visit the fields of a dict.
ItemsOrders(errors) ==
    {o \in [1..Cardinality(DOMAIN errors) -> DOMAIN errors] :
        \A i, j \in DOMAIN o : o[i] = o[j] => i = j}

\* One add_field_error call per field, for its first message, whatever the
\* length of the message list.
RECURSIVE FieldErrorEvents_OnePerField(_, _, _)
FieldErrorEvents_OnePerField(errors, order, i) ==
    IF i > Len(order)
    THEN <<>>
    ELSE [m \in 1..(IF errors[order[i]] = <<>> THEN 0 ELSE 1) |->
            [op |-> "add_field_error", field |-> order[i], message |-> errors[order[i]][m]]]
         \o FieldErrorEvents_OnePerField(errors, order, i + 1)

\* The add_field_error calls of lines 105-107 for the fields from position i
\* of the iteration order on.
RECURSIVE FieldErrorEvents(_, _, _)
FieldErrorEvents(errors, order, i) ==
    IF i > Len(order)
    THEN <<>>
    ELSE [m \in 1..Len(errors[order[i]]) |->
            [op |-> "add_field_error", field |-> order[i], message |-> errors[order[i]][m]]]
         \o FieldErrorEvents(errors, order, i + 1)

\* item[self.errors_field], or the fresh defaultdict(list) of line 131
ErrorsOf(it) == IF ErrorsKey \in DOMAIN it.values THEN it.values[ErrorsKey].v ELSE <<>>

\* d[field] of a defaultdict(list)
MessagesOf(errors, field) == IF field \in DOMAIN errors THEN errors[field] ELSE <<>>

\* _add_errors_to_item with item[errors_field][field_name] = messages.
_add_errors_to_item_Overwrite(it, errors) ==
    LET old == ErrorsOf(it)
        new == [f \in DOMAIN old \cup DOMAIN errors |->
                   IF f \in DOMAIN errors THEN errors[f] ELSE old[f]]
    IN  [it EXCEPT !.values =
            [k \in DOMAIN it.values \cup {ErrorsKey} |->
                IF k = ErrorsKey THEN PyDict(new) ELSE it.values[k]]]

\* _add_errors_to_item that rebuilds the item from the errors alone.
_add_errors_to_item_ErrorsOnly(it, errors) ==
    LET old == ErrorsOf(it)
        new == [f \in DOMAIN old \cup DOMAIN errors |->
                   MessagesOf(old, f) \o MessagesOf(errors, f)]
    IN  [it EXCEPT !.values = [k \in {ErrorsKey} |-> PyDict(new)]]

\* ItemValidationPipeline._add_errors_to_item: the item it leaves
_add_errors_to_item(it, errors) ==
    LET old == ErrorsOf(it)
        new == [f \in DOMAIN old \cup DOMAIN errors |->
                   MessagesOf(old, f) \o MessagesOf(errors, f)]
    IN  [it EXCEPT !.values =
            [k \in DOMAIN it.values \cup {ErrorsKey} |->
                IF k = ErrorsKey THEN PyDict(new) ELSE it.values[k]]]

\* How many of the calls in evs are calls of one of ops.
RECURSIVE Count(_, _)
Count(evs, ops) ==
    IF evs = <<>> THEN 0
    ELSE (IF Head(evs).op \in ops THEN 1 ELSE 0) + Count(Tail(evs), ops)

\* The annotation switch stuck on.
AnnotatePolicy_Always == TRUE

\* Annotation left out for an item that is about to be dropped.
AnnotatePolicy_UnlessDrop ==
    Truthy(add_errors_to_items) /\ ~Truthy(drop_items_with_errors)

\* line 109: if self.add_errors_to_items
AnnotatePolicy == Truthy(add_errors_to_items)

\* The drop switch read from the module default instead of the instance.
DropPolicy_Default == DEFAULT_DROP_ITEMS_WITH_ERRORS

\* line 111: if self.drop_items_with_errors
DropPolicy == Truthy(drop_items_with_errors)

\* add_item_with_errors reported once per item, for its first failure only.
FailureEvents_OncePerItem(errors, order) ==
    FieldErrorEvents(errors, order, 1)
    \o (IF Count(events, {"add_item_with_errors"}) = 0
        THEN <<[op |-> "add_item_with_errors"]>> ELSE <<>>)
    \o (IF Truthy(add_errors_to_items)
        THEN <<[op |-> "_add_errors_to_item", errors |-> errors]>> ELSE <<>>)

\* The stats calls and the annotation that lines 105-110 make for a failure.
FailureEvents(errors, order) ==
    FieldErrorEvents(errors, order, 1)
    \o <<[op |-> "add_item_with_errors"]>>
    \o (IF AnnotatePolicy THEN <<[op |-> "_add_errors_to_item", errors |-> errors]>> ELSE <<>>)

\* add_dropped_item called outside the test of the drop switch.
DropEvents_Always ==
    <<[op |-> "add_dropped_item"]>>
    \o (IF Truthy(drop_items_with_errors)
        THEN <<[op |-> "raise", exc |-> "DropItem"]>> ELSE <<>>)

\* The drop of lines 111-113 without the add_dropped_item of line 112.
DropEvents_RaiseOnly ==
    IF Truthy(drop_items_with_errors)
    THEN <<[op |-> "raise", exc |-> "DropItem"]>>
    ELSE <<>>

\* Lines 111-113.
DropEvents ==
    IF DropPolicy
    THEN <<[op |-> "add_dropped_item"], [op |-> "raise", exc |-> "DropItem"]>>
    ELSE <<>>

\* The counters of the sink after the calls in evs have been made on it.
StatsAfter(st, evs) ==
    [st EXCEPT !.field_errors = @ + Count(evs, {"add_field_error"}),
               !.items_with_errors = @ + Count(evs, {"add_item_with_errors"}),
               !.dropped = @ + Count(evs, {"add_dropped_item"})]

\* Lines 98-102, up to the first turn of the loop.
process_item(it) ==
    /\ pc \in {"ready", "returned", "raised"}
    /\ ncalls < MaxCalls
    /\ ncalls' = ncalls + 1
    /\ item' = it
    /\ data' = _convert_item_to_dict(it)
    /\ stats' = [stats EXCEPT !.items = @ + 1,
                              !.fields = @ + Cardinality(DOMAIN data')]
    /\ events' = <<[op |-> "process_item", item |-> it],
                   [op |-> "add_item"],
                   [op |-> "add_fields", n |-> Cardinality(DOMAIN data')]>>
    /\ todo' = find_validators(it)
    /\ pc' = "loop"
    /\ exc' = "none"
    /\ UNCHANGED <<settings, validators, drop_items_with_errors, add_errors_to_items,
                   errors_field, class_fields>>

\* An exception of validate turned into the DropItem of the drop policy.
Propagated_AsDropItem(e) == "DropItem"

\* Line 103 stands in no try block: what validator.validate raises leaves
\* process_item as it is.
Propagated(e) == e

\* The mapping converted anew from the item, as annotated so far, for each
\* validator.
LoopData_Reconverted == _convert_item_to_dict(item)

\* The local `data` of line 99, which every turn of the loop passes to
\* validate at line 103.
LoopData == data

\* One turn of the loop of lines 102-113.
validate_next ==
    /\ pc = "loop"
    /\ todo # <<>>
    /\ LET validator == Head(todo)
           res == Validate(validator, LoopData)
           call == [op |-> "validate", validator |-> validator, data |-> LoopData]
       IN  IF res.raised # "none"
           THEN /\ events' = events \o <<call, [op |-> "raise", exc |-> Propagated(res.raised)]>>
                /\ pc' = "raised"
                /\ exc' = Propagated(res.raised)
                /\ UNCHANGED <<todo, stats, item, class_fields>>
           ELSE IF res.ok
           THEN /\ events' = events \o <<call, [op |-> "validated", ok |-> TRUE,
                                                errors |-> res.errors]>>
                /\ todo' = Tail(todo)
                /\ UNCHANGED <<pc, exc, stats, item, class_fields>>
           ELSE \E order \in ItemsOrders(res.errors) :
                  LET evs == FailureEvents(res.errors, order) \o DropEvents
                  IN  /\ events' = events
                                   \o <<call, [op |-> "validated", ok |-> FALSE,
                                               errors |-> res.errors]>>
                                   \o evs
                      /\ stats' = StatsAfter(stats, evs)
                      /\ item' = IF AnnotatePolicy
                                 THEN _add_errors_to_item(item, res.errors)
                                 ELSE item
                      /\ class_fields' =
                           IF AnnotatePolicy
                           THEN [class_fields EXCEPT ![item.cls] = @ \cup {ErrorsKey}]
                           ELSE class_fields
                      /\ IF DropPolicy
                         THEN pc' = "raised" /\ exc' = "DropItem" /\ todo' = todo
                         ELSE pc' = "loop" /\ exc' = exc /\ todo' = Tail(todo)
    /\ UNCHANGED <<settings, validators, drop_items_with_errors, add_errors_to_items,
                   errors_field, data, ncalls>>

\* Line 114.
return_item ==
    /\ pc = "loop"
    /\ todo = <<>>
    /\ pc' = "returned"
    /\ events' = events \o <<[op |-> "return", item |-> item]>>
    /\ UNCHANGED <<settings, exc, validators, drop_items_with_errors, add_errors_to_items,
                   errors_field, stats, class_fields, item, data, todo, ncalls>>

\* ------------------------------------------------------------------ inputs
\* The items a spider yields: an instance of an item class with some of its
\* declared fields set.
ItemValues ==
    {<<>>,
     "title" :> PyStr(<<>>),
     ("title" :> PyStr(<<"x">>)) @@ ("tags" :> PyTuple(<<"t">>))}

Items == {[cls |-> c, values |-> v] : c \in ItemClasses, v \in ItemValues}

ErrorsFieldSettings == {PyNone, PyStr(<<"errs">>)}

Leaf_S_A == PySchema("S_A")
Leaf_S_AB == PyStr(<<"s_ab", "json">>)
Leaf_S_OK == PyStr(<<"schemas", "S_OK">>)
Leaf_S_TITLE == PyStr(<<"schemas", "S_TITLE_JSON">>)
Leaf_M_AB == PyStr(<<"models", "M_AB">>)
Leaf_M_OK == PyStr(<<"models", "M_OK">>)
Leaf_M_OKERR == PyStr(<<"models", "M_OKERR">>)
Leaf_M_RAISE == PyStr(<<"models", "M_RAISE">>)

MakeSettings(schemas, models, drop, add, field) ==
    [n \in SettingNames \cup {"SPIDERMON_VALIDATION_DROP_ITEMS_WITH_ERRORS",
                              "SPIDERMON_VALIDATION_ADD_ERRORS_TO_ITEMS",
                              "SPIDERMON_VALIDATION_ERRORS_FIELD"} |->
        CASE n = "SPIDERMON_VALIDATION_SCHEMAS" -> schemas
          [] n = "SPIDERMON_VALIDATION_MODELS" -> models
          [] n = "SPIDERMON_VALIDATION_DROP_ITEMS_WITH_ERRORS" -> drop
          [] n = "SPIDERMON_VALIDATION_ADD_ERRORS_TO_ITEMS" -> add
          [] OTHER -> field]

\* Declarations of the two settings that the dispatch is explored with.
DispatchSchemas ==
    {PyNone,
     PyList(<<Leaf_S_A, Leaf_S_AB>>),
     PyDict("Book" :> PyList(<<Leaf_S_A, Leaf_S_AB>>)),
     PyDict(("Book" :> Leaf_S_TITLE) @@ (UniversalItem :> PyTuple(<<Leaf_S_OK, Leaf_S_A>>))),
     PyDict("Book" :> Leaf_S_TITLE)}

DispatchModels ==
    {PyNone,
     PyTuple(<<Leaf_M_AB>>),
     PyDict("Book" :> PyList(<<Leaf_M_OK, Leaf_M_AB>>)),
     PyDict("Page" :> PyList(<<Leaf_M_AB, Leaf_M_OKERR, Leaf_M_RAISE>>))}

\* The switches the dispatch is explored with: each off and on, and with
\* annotation on the errors field left to its default or named.
DispatchFlags ==
    {fl \in {PyNone, PyBool(TRUE)} \X {PyBool(FALSE), PyBool(TRUE)} \X ErrorsFieldSettings :
        Truthy(fl[2]) \/ fl[3].t = "NoneType"}

DispatchSettings ==
    {MakeSettings(s, m, fl[1], fl[2], fl[3]) :
        s \in DispatchSchemas, m \in DispatchModels, fl \in DispatchFlags}

\* Declarations of the two settings that the construction is explored with:
\* unset, of a wrong container type, a list or tuple of leaves, and a dict
\* from item classes to a leaf or a list of leaves.
Declarations(leaves) ==
    {PyNone} \cup BadContainers
    \cup {PyList(ls) : ls \in SeqsUpTo(leaves, MaxDecl)}
    \cup {PyTuple(<<l>>) : l \in leaves}
    \cup {PyList(<<>>), PyDict(<<>>)}
    \cup {PyDict(c :> l) : c \in {"Book", UniversalItem}, l \in leaves}
    \cup {PyDict(("Book" :> PyList(<<l1, l2>>)) @@ (UniversalItem :> PyTuple(<<l2>>))) :
            l1 \in leaves, l2 \in leaves}

ConfigFlags ==
    {<<PyNone, PyNone, PyNone>>,
     <<PyBool(TRUE), PyBool(TRUE), PyStr(<<"errs">>)>>,
     <<PyBool(FALSE), PyBool(FALSE), PyStr(<<>>)>>}

\* A few declarations of each kind, to pair with every declaration of the
\* other setting.
CoreSchemas ==
    {PyNone, PyStr(<<>>), PyInt(3), PyList(<<Leaf_S_A, Leaf_S_AB>>),
     PyDict(("Book" :> Leaf_S_TITLE) @@ (UniversalItem :> PyTuple(<<Leaf_S_OK>>))),
     PyList(<<PyStr(<<"missing", "json">>)>>),
     PyDict(("Book" :> PyInt(5)) @@ (UniversalItem :> PyStr(<<"schemas", "BROKEN_JSON">>)))}

CoreModels ==
    {PyNone, PyInt(0), PyStr(<<"schemas", "S_OK">>), PyTuple(<<Leaf_M_AB, Leaf_M_OK>>),
     PyDict(("Book" :> PyList(<<Leaf_M_OK>>)) @@ (UniversalItem :> Leaf_M_AB)),
     PyList(<<PyStr(<<"models", "INSTANCE">>)>>)}

ConfigSettings ==
    {MakeSettings(s, m, f[1], f[2], f[3]) :
        s \in Declarations(SchemaLeaves), m \in CoreModels, f \in ConfigFlags}
    \cup
    {MakeSettings(s, m, f[1], f[2], f[3]) :
        s \in CoreSchemas, m \in Declarations(ModelLeaves), f \in ConfigFlags}

\* ---------------------------------------------------------- specifications
\* The dispatch: a pipeline is built from settings that load, and items are
\* processed by it one after the other.
Init ==
    /\ settings \in DispatchSettings
    /\ Unbuilt

Next ==
    \/ from_crawler
    \/ \E it \in Items : process_item(it)
    \/ validate_next
    \/ return_item

Spec == Init /\ [][Next]_vars

\* The construction alone, from every shape of the two settings.
InitConfig ==
    /\ settings \in ConfigSettings
    /\ Unbuilt

NextConfig == from_crawler

SpecConfig == InitConfig /\ [][NextConfig]_vars

\* ------------------------------------------------------------------ claims
\* A process_item call has been made and its trace is in events.
InCall == pc \in {"loop", "returned", "raised"}

Dropped == pc = "raised" /\ exc = "DropItem"

IsFailure(e) == e.op = "validated" /\ ~e.ok

\* The outcomes of the validators that returned not-ok, in invocation order.
Failures == SelectSeq(events, IsFailure)

IsInvocation(e) == e.op = "validate"

\* The validators invoked so far in the call, in order.
Invoked ==
    LET calls == SelectSeq(events, IsInvocation)
    IN  [i \in DOMAIN calls |-> calls[i].validator]

\* The item the call was given.
GivenItem == events[1].item

\* The validators a setting declares for a key, in declared order.
DeclaredFor(name, key) ==
    LET res == settings[name]
        leaves == IF ~Truthy(res) THEN <<>>
                  ELSE IF res.t \in {"list", "tuple"}
                       THEN (IF key = UniversalItem THEN res.v ELSE <<>>)
                       ELSE IF key \notin DOMAIN res.v THEN <<>>
                            ELSE IF res.v[key].t \in {"list", "tuple"}
                                 THEN res.v[key].v
                                 ELSE <<res.v[key]>>
    IN  [i \in DOMAIN leaves |-> Loader(name, leaves[i]).val]

\* The keys a setting declares.
DeclaredKeys(name) ==
    LET res == settings[name]
    IN  IF ~Truthy(res) THEN {}
        ELSE IF res.t \in {"list", "tuple"} THEN {UniversalItem} ELSE DOMAIN res.v

\* Schemas first, models second.
RegisteredFor(key) ==
    DeclaredFor("SPIDERMON_VALIDATION_SCHEMAS", key)
    \o DeclaredFor("SPIDERMON_VALIDATION_MODELS", key)

IsPrefix(s, t) == Len(s) <= Len(t) /\ \A i \in DOMAIN s : s[i] = t[i]

\* C1: with the drop policy enabled, once a validator has returned not-ok the
\* call has failed with DropItem, the raise is the last thing it did, and no
\* validator was invoked after the failing one.
C1_DropShortCircuit ==
    (InCall /\ Truthy(drop_items_with_errors)) =>
        \A i \in DOMAIN events :
            IsFailure(events[i]) =>
                /\ Dropped
                /\ events[Len(events)].op = "raise"
                /\ events[Len(events)].exc = "DropItem"
                /\ \A j \in DOMAIN events : j > i => events[j].op # "validate"

\* A call rejected at its first validator while a later validator was still
\* to run.
C1_Witness ==
    /\ Dropped
    /\ Len(Invoked) = 1
    /\ Len(todo) >= 2

\* The messages the failing validators in fs reported for field f, concatenated.
RECURSIVE ConcatMessages(_, _)
ConcatMessages(fs, f) ==
    IF fs = <<>> THEN <<>>
    ELSE (IF f \in DOMAIN Head(fs).errors THEN Head(fs).errors[f] ELSE <<>>)
         \o ConcatMessages(Tail(fs), f)

ReportedFields(fs) == UNION {DOMAIN fs[i].errors : i \in DOMAIN fs}

\* C2: with annotation enabled and drop disabled, the errors field of a
\* returned item maps every field a failing validator reported to the
\* concatenation, in invocation order, of the messages reported for it.
C2_ErrorsAccumulate ==
    (pc = "returned" /\ Truthy(add_errors_to_items) /\ ~Truthy(drop_items_with_errors)
        /\ Failures # <<>>) =>
        /\ ErrorsKey \in DOMAIN item.values
        /\ item.values[ErrorsKey].v =
             [f \in ReportedFields(Failures) |-> ConcatMessages(Failures, f)]
        /\ events[Len(events)].item = item

\* The example of the specification: {a: [bad1]} then {a: [bad2], b: [bad3]}.
C2_Witness ==
    /\ pc = "returned"
    /\ Truthy(add_errors_to_items)
    /\ ~Truthy(drop_items_with_errors)
    /\ Len(Failures) = 2
    /\ ErrorsKey \in DOMAIN item.values
    /\ item.values[ErrorsKey].v = ("a" :> <<"bad1", "bad2">>) @@ ("b" :> <<"bad3">>)

\* How many add_field_error(f, m) calls the trace evs holds.
RECURSIVE FieldErrorCalls(_, _, _)
FieldErrorCalls(evs, f, m) ==
    IF evs = <<>> THEN 0
    ELSE (IF Head(evs).op = "add_field_error" /\ Head(evs).field = f /\ Head(evs).message = m
          THEN 1 ELSE 0) + FieldErrorCalls(Tail(evs), f, m)

\* How many times the failures fs report message m for field f.
RECURSIVE ReportedTimes(_, _, _)
ReportedTimes(fs, f, m) ==
    IF fs = <<>> THEN 0
    ELSE (IF f \in DOMAIN Head(fs).errors
          THEN Cardinality({k \in DOMAIN Head(fs).errors[f] : Head(fs).errors[f][k] = m})
          ELSE 0) + ReportedTimes(Tail(fs), f, m)

\* The (field, message) pairs the failures fs report.
ReportedPairs(fs) ==
    UNION {UNION {{<<f, fs[i].errors[f][k]>> : k \in DOMAIN fs[i].errors[f]} :
                    f \in DOMAIN fs[i].errors} : i \in DOMAIN fs}

\* The (field, message) pairs of the add_field_error calls in the trace evs.
CalledPairs(evs) ==
    {<<evs[i].field, evs[i].message>> : i \in {j \in DOMAIN evs : evs[j].op = "add_field_error"}}

\* C3: with annotation and drop both disabled a call never fails with
\* DropItem, the item stays as it was given (also the fields of its class),
\* the returned item is the given one, and every failing validator has its
\* field-error and item-had-errors increments reported.
C3_ObservationOnly ==
    (InCall /\ ~Truthy(add_errors_to_items) /\ ~Truthy(drop_items_with_errors)) =>
        /\ exc # "DropItem"
        /\ item = GivenItem
        /\ class_fields[item.cls] = DeclaredFields
        /\ pc = "returned" => events[Len(events)].item = GivenItem
        /\ Count(events, {"add_item_with_errors"}) = Len(Failures)
        /\ CalledPairs(events) = ReportedPairs(Failures)
        /\ \A p \in ReportedPairs(Failures) :
              FieldErrorCalls(events, p[1], p[2]) = ReportedTimes(Failures, p[1], p[2])
        /\ Count(events, {"add_dropped_item"}) = 0

\* An item returned in observation mode after two of its validators failed.
C3_Witness ==
    /\ pc = "returned"
    /\ ~Truthy(add_errors_to_items)
    /\ ~Truthy(drop_items_with_errors)
    /\ Len(Failures) >= 2
    /\ Count(events, {"add_field_error"}) >= 3

\* C4: an item whose type name has no validators, while the universal key has
\* none either, is returned as given under every setting of the two switches;
\* the call reports one item-seen and one field-count increment, nothing else.
C4_PassThrough ==
    (InCall /\ RegistryGet(validators, GivenItem.cls) = <<>>
            /\ RegistryGet(validators, UniversalItem) = <<>>) =>
        /\ pc # "raised"
        /\ item = GivenItem
        /\ todo = <<>>
        /\ events[2].op = "add_item"
        /\ events[3].op = "add_fields"
        /\ events[3].n = Cardinality(DOMAIN GivenItem.values)
        /\ Len(events) = (IF pc = "returned" THEN 4 ELSE 3)
        /\ pc = "returned" => (events[4].op = "return" /\ events[4].item = GivenItem)

\* Such an item returned by a pipeline that has validators for another type
\* and both switches on.
C4_Witness ==
    /\ pc = "returned"
    /\ RegistryGet(validators, GivenItem.cls) = <<>>
    /\ RegistryGet(validators, UniversalItem) = <<>>
    /\ \E key \in DOMAIN validators : validators[key] # <<>>
    /\ Truthy(add_errors_to_items)
    /\ Truthy(drop_items_with_errors)

\* C5: the validators of a call are invoked in the order: those registered
\* for the item's type name, in registration order, then those registered for
\* the universal key, in registration order; a key nothing was registered for
\* contributes none.  A call that returns has invoked them all.
C5_LookupOrder ==
    InCall =>
        /\ IsPrefix(Invoked, RegisteredFor(GivenItem.cls) \o RegisteredFor(UniversalItem))
        /\ pc = "returned" =>
             Invoked = RegisteredFor(GivenItem.cls) \o RegisteredFor(UniversalItem)

\* A returned call for a type with validators of its own and universal ones.
C5_Witness ==
    /\ pc = "returned"
    /\ GivenItem.cls # UniversalItem
    /\ Len(RegisteredFor(GivenItem.cls)) >= 2
    /\ Len(RegisteredFor(UniversalItem)) >= 2
    /\ RegisteredFor(GivenItem.cls) # RegisteredFor(UniversalItem)

\* C6: the registry from_crawler builds holds, under each key, the validators
\* loaded from the schemas setting in declared order followed by those loaded
\* from the models setting in declared order, and holds no other key; a list
\* or tuple declaration is registered under the universal key.
C6_AdditiveRegistry ==
    pc = "ready" =>
        /\ DOMAIN validators = DeclaredKeys("SPIDERMON_VALIDATION_SCHEMAS")
                               \cup DeclaredKeys("SPIDERMON_VALIDATION_MODELS")
        /\ \A key \in DOMAIN validators : validators[key] = RegisteredFor(key)
        /\ stats.validators = RegisteredNames(validators)

\* A registry with a key that both settings registered validators for, the
\* schemas given as a list of two.
C6_Witness ==
    /\ pc = "ready"
    /\ settings["SPIDERMON_VALIDATION_SCHEMAS"].t = "list"
    /\ Len(DeclaredFor("SPIDERMON_VALIDATION_SCHEMAS", UniversalItem)) = 2
    /\ Len(DeclaredFor("SPIDERMON_VALIDATION_MODELS", UniversalItem)) >= 1
    /\ Len(validators[UniversalItem]) >= 3

\* The validators the lookup yields that return not-ok for the data d.
FailingOf(vs, d) == {i \in DOMAIN vs : ~Validate(vs[i], d).ok}

\* C7: within one call the item-had-errors increments are as many as the
\* invoked validators that returned not-ok; with drop disabled a returned
\* item that fails k of its validators has k such increments.
C7_ItemErrorsPerValidator ==
    InCall =>
        /\ Count(events, {"add_item_with_errors"}) = Len(Failures)
        /\ (pc = "returned" /\ ~Truthy(drop_items_with_errors)) =>
              Count(events, {"add_item_with_errors"}) =
                Cardinality(FailingOf(RegistryGet(validators, GivenItem.cls)
                                      \o RegistryGet(validators, UniversalItem), data))

\* An item returned after three of its validators failed.
C7_Witness ==
    /\ pc = "returned"
    /\ Len(Failures) = 3
    /\ Count(events, {"add_item_with_errors"}) = 3

\* The position of the last event of the trace with the given op, 0 if none.
LastOf(op) ==
    LET at == {i \in DOMAIN events : events[i].op = op}
    IN  IF at = {} THEN 0 ELSE CHOOSE i \in at : \A j \in at : j <= i

\* C8: with annotation and drop both enabled, a rejected item carries the
\* errors of the validator that caused the rejection, merged onto it before
\* DropItem was raised.
C8_AnnotateBeforeDrop ==
    (Dropped /\ Truthy(add_errors_to_items)) =>
        /\ LastOf("validated") < LastOf("_add_errors_to_item")
        /\ LastOf("_add_errors_to_item") < LastOf("raise")
        /\ events[LastOf("_add_errors_to_item")].errors = events[LastOf("validated")].errors
        /\ ErrorsKey \in DOMAIN item.values
        /\ item.values[ErrorsKey].v = events[LastOf("validated")].errors
        /\ ErrorsKey \in class_fields[item.cls]

\* A rejected item that carries the two fields of errors of its validator.
C8_Witness ==
    /\ Dropped
    /\ Truthy(add_errors_to_items)
    /\ ErrorsKey \in DOMAIN item.values
    /\ Cardinality(DOMAIN item.values[ErrorsKey].v) = 2

\* C9: a rejection is preceded by the statistics of the failure: the
\* field-error increments and the item-had-errors increment of the failing
\* validator come before the one item-dropped increment, which is the last
\* thing done before DropItem is raised; a call that is not rejected has no
\* item-dropped increment.
C9_StatsBeforeDrop ==
    InCall =>
        /\ Count(events, {"add_dropped_item"}) = (IF Dropped THEN 1 ELSE 0)
        /\ Dropped =>
             LET n == Len(events)
                 k == LastOf("validated")
                 own == SubSeq(events, k + 1, n - 2)
             IN  /\ events[n].op = "raise"
                 /\ events[n - 1].op = "add_dropped_item"
                 /\ \A i \in DOMAIN events :
                       events[i].op \in {"add_field_error", "add_item_with_errors"} => i < n - 1
                 /\ Count(own, {"add_item_with_errors"}) = 1
                 /\ CalledPairs(own) = ReportedPairs(<<events[k]>>)
                 /\ \A p \in CalledPairs(own) :
                       FieldErrorCalls(own, p[1], p[2]) = ReportedTimes(<<events[k]>>, p[1], p[2])

\* A rejection whose failing validator reported two messages.
C9_Witness ==
    /\ Dropped
    /\ Count(events, {"add_field_error"}) = 2
    /\ stats.dropped >= 1

AllowedTypes == {"list", "tuple", "dict"}

\* A value of the setting is configured, and it is no list, tuple or mapping.
NoContainer(name) == settings[name].t \notin AllowedTypes \cup {"OrderedDict", "NoneType"}

\* A value of the setting is configured, and its type is none of the allowed.
WrongContainer(name) == settings[name].t \notin AllowedTypes \cup {"NoneType"}

\* C10 as stated: every configured value of a setting that is no list, tuple
\* or mapping makes from_crawler fail with NotConfigured.
C10_Original ==
    (pc # "start" /\ \E name \in SettingNames : NoContainer(name)) =>
        (pc = "failed" /\ exc = "NotConfigured")

\* The exceptions that loading the schemas setting can end in.
SchemasRaise ==
    {r.raised : r \in {x \in LoadSetting("SPIDERMON_VALIDATION_SCHEMAS", settings, <<>>) :
                          x.raised # "none"}}

\* C10, amended: a value of a wrong container type that is true in Python's
\* sense (not '', 0 or False) makes from_crawler fail and no pipeline is
\* built; the failure is NotConfigured, unless loading the schemas setting
\* raised before the models setting was looked at.  A false value of a wrong
\* type is skipped like an unset setting.
C10_WrongContainerFails ==
    pc # "start" =>
        /\ (WrongContainer("SPIDERMON_VALIDATION_SCHEMAS")
              /\ Truthy(settings["SPIDERMON_VALIDATION_SCHEMAS"])) =>
                (pc = "failed" /\ exc = "NotConfigured")
        /\ (WrongContainer("SPIDERMON_VALIDATION_MODELS")
              /\ Truthy(settings["SPIDERMON_VALIDATION_MODELS"])) =>
                (pc = "failed" /\ exc \in {"NotConfigured"} \cup SchemasRaise)
        /\ pc = "failed" => (validators = <<>> /\ stats.validators = {})

\* A models setting of a wrong type refused after the schemas had loaded.
C10_Witness ==
    /\ pc = "failed"
    /\ exc = "NotConfigured"
    /\ WrongContainer("SPIDERMON_VALIDATION_MODELS")
    /\ Truthy(settings["SPIDERMON_VALIDATION_MODELS"])
    /\ settings["SPIDERMON_VALIDATION_SCHEMAS"].t = "dict"
    /\ SchemasRaise = {}

\* The leaves a setting declares, under whatever key, when its value is of an
\* allowed container type.
LeavesOf(name) ==
    LET res == settings[name]
    IN  IF ~Truthy(res) \/ res.t \notin AllowedTypes THEN {}
        ELSE IF res.t \in {"list", "tuple"} THEN {res.v[i] : i \in DOMAIN res.v}
        ELSE UNION {IF res.v[key].t \in {"list", "tuple"}
                    THEN {res.v[key].v[i] : i \in DOMAIN res.v[key].v}
                    ELSE {res.v[key]} : key \in DOMAIN res.v}

\* A model reference that resolves to an object that is no model class.
MalformedModel(leaf) ==
    /\ load_object(leaf).raised = "none"
    /\ ~(load_object(leaf).val.t = "type" /\ load_object(leaf).val.model)

\* A schema leaf that is no dict and does not resolve to one.
MalformedSchema(leaf) ==
    /\ leaf.t # "dict"
    /\ ~(ResolveSchema(leaf).raised = "none" /\ ResolveSchema(leaf).val.t = "dict")

SomeLeafMalformed ==
    \/ \E leaf \in LeavesOf("SPIDERMON_VALIDATION_SCHEMAS") : MalformedSchema(leaf)
    \/ \E leaf \in LeavesOf("SPIDERMON_VALIDATION_MODELS") : MalformedModel(leaf)

\* C11: every malformed leaf declaration, a model reference that resolves to
\* no proper model class or a schema leaf that is no dict and resolves to
\* none, makes from_crawler fail with NotConfigured and yields no pipeline.
C11_MalformedLeafNotConfigured ==
    (pc # "start" /\ SomeLeafMalformed) => (pc = "failed" /\ exc = "NotConfigured")

\* The three configuration values, as the settings give them.
DropSetting == Truthy(settings["SPIDERMON_VALIDATION_DROP_ITEMS_WITH_ERRORS"])
AddSetting == Truthy(settings["SPIDERMON_VALIDATION_ADD_ERRORS_TO_ITEMS"])
FieldSetting ==
    IF Truthy(settings["SPIDERMON_VALIDATION_ERRORS_FIELD"])
    THEN settings["SPIDERMON_VALIDATION_ERRORS_FIELD"].v[1]
    ELSE "_validation"

\* The field mapping of an item as given: its set fields, tuples as lists.
MappingOf(it) ==
    [k \in DOMAIN it.values |->
        IF it.values[k].t = "tuple" THEN [t |-> "list", v |-> it.values[k].v] ELSE it.values[k]]

\* What a call does with the validators vs on the mapping d when nothing
\* but the settings and the item decides it: how it ends, how many validators
\* it invokes, and the errors of those that return not-ok, in order.
RECURSIVE FreshRun(_, _)
FreshRun(vs, d) ==
    IF vs = <<>>
    THEN [result |-> "returned", invoked |-> 0, failures |-> <<>>]
    ELSE LET r == Validate(Head(vs), d)
             rest == FreshRun(Tail(vs), d)
         IN  IF r.raised # "none"
             THEN [result |-> r.raised, invoked |-> 1, failures |-> <<>>]
             ELSE IF r.ok
             THEN [rest EXCEPT !.invoked = @ + 1]
             ELSE IF DropSetting
             THEN [result |-> "DropItem", invoked |-> 1, failures |-> <<r.errors>>]
             ELSE [rest EXCEPT !.invoked = @ + 1, !.failures = <<r.errors>> \o @]

\* The item as given, with the errors of the failures merged under the
\* errors field when annotation is on.
FreshItem(it, fs) ==
    IF ~AddSetting \/ fs = <<>>
    THEN it
    ELSE [it EXCEPT !.values =
            [k \in DOMAIN it.values \cup {FieldSetting} |->
                IF k = FieldSetting
                THEN [t |-> "dict",
                      v |-> [f \in ReportedFields(fs) |-> ConcatMessages(fs, f)]]
                ELSE it.values[k]]]

\* A finished call ended, annotated and reported as a first call on the same
\* item would.
SameAsFresh ==
    pc \in {"returned", "raised"} =>
        LET fresh == FreshRun(RegisteredFor(GivenItem.cls) \o RegisteredFor(UniversalItem),
                              MappingOf(GivenItem))
        IN  /\ (pc = "returned") = (fresh.result = "returned")
            /\ pc = "raised" => exc = fresh.result
            /\ Len(Invoked) = fresh.invoked
            /\ [i \in DOMAIN Failures |-> Failures[i].errors] = fresh.failures
            /\ item = FreshItem(GivenItem, Failures)
            /\ Count(events, {"add_item"}) = 1
            /\ Count(events, {"add_fields"}) = 1
            /\ events[3].n = Cardinality(DOMAIN GivenItem.values)
            /\ Count(events, {"add_item_with_errors"}) = Len(fresh.failures)
            /\ CalledPairs(events) = ReportedPairs(Failures)
            /\ Count(events, {"add_dropped_item"}) = (IF fresh.result = "DropItem" THEN 1 ELSE 0)

\* No step of a call changes the registry or a configuration value.
DispatcherUntouched ==
    pc # "start" =>
        /\ validators' = validators
        /\ drop_items_with_errors' = drop_items_with_errors
        /\ add_errors_to_items' = add_errors_to_items
        /\ errors_field' = errors_field

\* C12: a rejection leaves no trace in the dispatcher: no step of a call,
\* returning or raising, changes the registry or the three configuration
\* values, and every call, whatever was processed before it, ends, annotates
\* and reports as a first call on its item would.
C12_NoTraceOfEarlierItems == []SameAsFresh /\ [][DispatcherUntouched]_vars

\* A second item returned by a pipeline that rejected the first one.
C12_Witness ==
    /\ ncalls = 2
    /\ pc = "returned"
    /\ stats.dropped = 1
    /\ FieldSetting \in class_fields[item.cls]
    /\ Len(Invoked) >= 1

\* The validators applicable to an item: those of its type name, then the
\* universal ones.
Applicable(it) ==
    RegisteredFor(it.cls) \o (IF it.cls = UniversalItem THEN <<>> ELSE RegisteredFor(UniversalItem))

\* The call has ended, by a return, by DropItem or by a validator's exception.
CallEnded == pc \in {"returned", "raised"}

ValidatorRaised == pc = "raised" /\ exc # "DropItem"

\* C13: a call in which every invoked validator returns an outcome returns the
\* record exactly when no invoked validator returned not-ok or the drop policy
\* is off, and when it returns, the applicable validators, type-specific then
\* universal, have been invoked once each, those after a failing one too.
C13_AllOrRejected ==
    (CallEnded /\ ~ValidatorRaised) =>
        /\ (pc = "returned") = (Failures = <<>> \/ ~DropSetting)
        /\ pc = "returned" => Invoked = Applicable(GivenItem)

\* The positions of the log at which a validator is invoked.
InvocationIndexes == {i \in DOMAIN events : events[i].op = "validate"}

\* C14: every call reports one item-seen increment and one field-count
\* increment of the number of fields of the converted mapping, both before
\* any validator is invoked, however the call goes on: returned, rejected,
\* or without an applicable validator.
C14_SeenAndFieldsOnce ==
    InCall =>
        /\ events[2].op = "add_item"
        /\ events[3] = [op |-> "add_fields", n |-> Cardinality(DOMAIN MappingOf(GivenItem))]
        /\ Count(events, {"add_item"}) = 1
        /\ Count(events, {"add_fields"}) = 1
        /\ \A i \in InvocationIndexes : i > 3

\* A rejected item with two fields.
C14_Witness ==
    /\ Dropped
    /\ Cardinality(DOMAIN GivenItem.values) = 2
    /\ events[3].n = 2
    /\ InvocationIndexes # {}

\* The outcomes the validators returned, by position in the log.
OutcomeIndexes == {i \in DOMAIN events : events[i].op = "validated"}

\* What the call did after the outcome at position i and before it invoked
\* the next validator.
ReactionTo(i) ==
    LET later == {j \in InvocationIndexes : j > i}
        stop == IF later = {} THEN Len(events) + 1
                ELSE CHOOSE j \in later : \A k \in later : j <= k
    IN  SubSeq(events, i + 1, stop - 1)

\* The messages reported for a field in a stretch of the log, in order.
MessagesReported(evs, f) ==
    LET calls == SelectSeq(evs, LAMBDA e : e.op = "add_field_error" /\ e.field = f)
    IN  [k \in DOMAIN calls |-> calls[k].message]

\* C15: after a validator returned not-ok, one field error is reported per
\* message of each field of its errors mapping, the messages of a field in
\* list order, and none for another field; after a validator returned ok,
\* no field error, no item-had-errors and no annotation follows, whatever
\* its errors mapping holds.
C15_FieldErrorsPerMessage ==
    InCall =>
        \A i \in OutcomeIndexes :
            LET errors == events[i].errors
                reaction == ReactionTo(i)
            IN  IF events[i].ok
                THEN Count(reaction, {"add_field_error", "add_item_with_errors",
                                      "_add_errors_to_item"}) = 0
                ELSE /\ \A f \in DOMAIN errors : MessagesReported(reaction, f) = errors[f]
                     /\ \A k \in DOMAIN reaction :
                            reaction[k].op = "add_field_error" => reaction[k].field \in DOMAIN errors

\* A call in which one validator returned not-ok with two fields and a later
\* one returned ok together with a non-empty errors mapping.
C15_Witness ==
    /\ InCall
    /\ \E i, j \in OutcomeIndexes :
          /\ i < j
          /\ ~events[i].ok
          /\ Cardinality(DOMAIN events[i].errors) = 2
          /\ events[j].ok
          /\ DOMAIN events[j].errors # {}
    /\ Count(events, {"add_field_error"}) = 2

\* C16: a call changes the record in one way only, by setting the errors
\* field: every field the record was given keeps its value, no other field
\* appears, and the errors field is set exactly when annotation is on and a
\* validator of the call has returned not-ok; a record whose validators all
\* pass, or that is processed with annotation off, stays as it was given.
C16_OnlyErrorsFieldChanges ==
    InCall =>
        /\ item.cls = GivenItem.cls
        /\ \A k \in DOMAIN GivenItem.values :
              k \in DOMAIN item.values /\ item.values[k] = GivenItem.values[k]
        /\ DOMAIN item.values \subseteq DOMAIN GivenItem.values \cup {FieldSetting}
        /\ (FieldSetting \in DOMAIN item.values) = (AddSetting /\ Failures # <<>>)
        /\ pc = "returned" => events[Len(events)] = [op |-> "return", item |-> item]

\* A returned record with two fields of its own and the errors field.
C16_Witness ==
    /\ pc = "returned"
    /\ Cardinality(DOMAIN GivenItem.values) = 2
    /\ FieldSetting \in DOMAIN item.values
    /\ item.values[FieldSetting].v # <<>>

\* The position of the last invocation of the call, 0 when there is none yet.
LastInvocation ==
    IF InvocationIndexes = {} THEN 0
    ELSE CHOOSE i \in InvocationIndexes : \A j \in InvocationIndexes : j <= i

\* What the validator invoked last raises on the mapping it was given.
RaisedByLast ==
    IF LastInvocation = 0 THEN "none"
    ELSE Validate(events[LastInvocation].validator, events[LastInvocation].data).raised

\* The call ends where the validator raised, with its exception, and what
\* the earlier validators of the record caused is all that was reported and
\* annotated.
RaiseEndsCall ==
    (InCall /\ RaisedByLast # "none") =>
        /\ pc = "raised"
        /\ exc = RaisedByLast
        /\ exc # "DropItem"
        /\ LastInvocation = Len(events) - 1
        /\ events[Len(events)] = [op |-> "raise", exc |-> RaisedByLast]
        /\ Count(events, {"add_dropped_item"}) = 0
        /\ Count(events, {"add_item_with_errors"}) = Len(Failures)
        /\ CalledPairs(events) = ReportedPairs(Failures)
        /\ item = FreshItem(GivenItem, Failures)

\* The step on which a validator raises reports nothing and leaves the item
\* as the earlier validators annotated it.
RaiseStepReportsNothing ==
    (pc = "loop" /\ pc' = "raised" /\ exc' # "DropItem") => (stats' = stats /\ item' = item)

\* C17: an exception raised inside a validator's validate leaves
\* process_item unchanged: it is not turned into DropItem, nothing is reported
\* as dropped or as an item with errors for that validator, no later validator
\* is invoked, and the stats and the annotation of the earlier validators of
\* the record remain.
C17_ValidatorExceptionPropagates == []RaiseEndsCall /\ [][RaiseStepReportsNothing]_vars

\* A validator raised after an earlier validator of the record had failed
\* and been annotated.
C17_Witness ==
    /\ pc = "raised"
    /\ exc = "ValueError"
    /\ Len(Failures) = 1
    /\ Len(Invoked) = 3
    /\ FieldSetting \in DOMAIN item.values
    /\ stats.items_with_errors >= 1

\* How many times a validator was invoked in the call.
TimesInvoked(v) == Cardinality({i \in DOMAIN Invoked : Invoked[i] = v})

\* Every validator of the settings is declared under the universal key.
UniversalOnly ==
    DeclaredKeys("SPIDERMON_VALIDATION_SCHEMAS") \cup DeclaredKeys("SPIDERMON_VALIDATION_MODELS")
        \subseteq {UniversalItem}

\* C18: when the validators are registered under the universal key only, a
\* call that runs to its return has invoked each of them exactly once, for a
\* record of every type name, the name UniversalItem included.
C18_UniversalOncePerCall ==
    (pc = "returned" /\ UniversalOnly) =>
        \A i \in DOMAIN RegisteredFor(UniversalItem) :
            TimesInvoked(RegisteredFor(UniversalItem)[i]) = 1

\* With the drop policy on, as many items were reported with errors as
\* dropped, and no more than were seen.
DropTotalsAgree ==
    DropSetting =>
        /\ stats.items_with_errors = stats.dropped
        /\ stats.dropped <= stats.items

\* The step on which a call raises DropItem.
RaisesDropItem == pc = "loop" /\ pc' = "raised" /\ exc' = "DropItem"

\* With the drop policy on, the dropped total grows by one on the steps that
\* raise DropItem and on no other.
DropCountedPerRaise ==
    DropSetting => stats'.dropped = stats.dropped + (IF RaisesDropItem THEN 1 ELSE 0)

\* C19: with the drop policy on, after any sequence of calls the total of
\* item-had-errors increments equals the total of item-dropped increments,
\* which is the number of calls that raised DropItem and never exceeds the
\* total of item-seen increments.
C19_DropTotals == []DropTotalsAgree /\ [][DropCountedPerRaise]_vars

\* Two items seen, one of them rejected.
C19_Witness ==
    /\ DropSetting
    /\ ncalls = 2
    /\ stats.items = 2
    /\ stats.dropped = 1
    /\ stats.items_with_errors = 1
    /\ Dropped

\* C20: the record is converted to a mapping once, before any validator
\* runs: every validator of the call is given the mapping of the record as
\* it was given, so the errors field written for an earlier failure is in no
\* mapping a later validator validates, and not in the field count of the call.
C20_PreAnnotationMapping ==
    InCall =>
        /\ data = MappingOf(GivenItem)
        /\ \A i \in InvocationIndexes :
              /\ events[i].data = MappingOf(GivenItem)
              /\ FieldSetting \notin DOMAIN events[i].data
        /\ events[3].n = Cardinality(DOMAIN GivenItem.values)

\* A validator invoked after an earlier failure was annotated on the record.
C20_Witness ==
    /\ InCall
    /\ FieldSetting \in DOMAIN item.values
    /\ \E i, j \in DOMAIN events :
          /\ i < j
          /\ events[i].op = "_add_errors_to_item"
          /\ events[j].op = "validate"

====
